---- MODULE Spec2Model ----
(***************************************************************************)
(* A model of the file browser of src/src/main.py: the startup block, the  *)
(* browse() request handler taken one filesystem call at a time, and       *)
(* dir_contains_hide() with the os.walk it drives.                         *)
(*                                                                         *)
(* Strings are sequences of one-character strings, so that prefix tests,   *)
(* joins and normalisation are computed on text as the code computes them. *)
(* The filesystem is a finite tree of directories, regular files and       *)
(* symbolic links, with directories that may deny all access.              *)
(*                                                                         *)
(* Not modelled: the mtime, size and type fields of an entry (they read    *)
(* the stat result, whose only modelled effect is whether stat raises),    *)
(* template rendering, and the bytes of a served file.                     *)
(***************************************************************************)
EXTENDS Integers, Sequences, FiniteSets, TLC

VARIABLES
  fs,            \* the filesystem: canonical node path -> node
  environ,       \* os.environ.get("FILE_DIR"): a string, or NoValue
  argDir,        \* the --dir argument as given on the command line, or NoValue
  DEFAULT_BASE,  \* the module global of that name
  pc,            \* where the program is
  req_path,      \* browse's argument
  base,          \* browse's local
  target_path,   \* browse's local
  pending,       \* names the scandir iterator has not yielded yet
  enumerated,    \* names the scandir iterator has yielded, in order
  cur,           \* the entry e of the for loop, or NoValue
  walkTodo,      \* os.walk: directories still to be visited
  walked,        \* os.walk: directories whose scandir has been attempted
  entries,       \* browse's local
  touched,       \* filesystem calls made on the target during this request
  response       \* the outcome of the last request, or NoValue

vars == << fs, environ, argDir, DEFAULT_BASE, pc, req_path, base, target_path,
           pending, enumerated, cur, walkTodo, walked, entries, touched, response >>

NoValue == << "None" >>

(***************************************************************************)
(* Text                                                                    *)
(***************************************************************************)
SEP == "/"
BSL == "\\"

\* Code points of the characters the model uses.
Ord(c) ==
  CASE c = "." -> 46 [] c = "/" -> 47 [] c = "A" -> 65 [] c = "C" -> 67
    [] c = BSL -> 92
    [] c = "a" -> 97 [] c = "b" -> 98 [] c = "c" -> 99 [] c = "d" -> 100
    [] c = "e" -> 101 [] c = "f" -> 102 [] c = "h" -> 104 [] c = "i" -> 105
    [] c = "l" -> 108 [] c = "m" -> 109 [] c = "o" -> 111 [] c = "p" -> 112
    [] c = "q" -> 113 [] c = "s" -> 115 [] c = "x" -> 120

LowerChar(c) == CASE c = "A" -> "a" [] c = "C" -> "c" [] OTHER -> c

\* str.lower()
Lower(s) == [i \in 1..Len(s) |-> LowerChar(s[i])]

\* s < t, as Python compares strings
RECURSIVE StrLess(_, _)
StrLess(s, t) ==
  IF t = << >> THEN FALSE
  ELSE IF s = << >> THEN TRUE
  ELSE IF Ord(Head(s)) # Ord(Head(t)) THEN Ord(Head(s)) < Ord(Head(t))
  ELSE StrLess(Tail(s), Tail(t))

\* str.startswith
StartsWith(s, p) == Len(p) <= Len(s) /\ SubSeq(s, 1, Len(p)) = p

EndsWith(s, p) == Len(p) <= Len(s) /\ SubSeq(s, Len(s) - Len(p) + 1, Len(s)) = p

\* str.replace(old, new) for one-character old and new
Replace(s, old, new) == [i \in 1..Len(s) |-> IF s[i] = old THEN new ELSE s[i]]

\* str.split("/")
RECURSIVE SplitFrom(_, _, _)
SplitFrom(s, i, acc) ==
  IF i > Len(s) THEN << acc >>
  ELSE IF s[i] = SEP THEN << acc >> \o SplitFrom(s, i + 1, << >>)
  ELSE SplitFrom(s, i + 1, Append(acc, s[i]))

Split(s) == SplitFrom(s, 1, << >>)

\* "/".join(comps)
RECURSIVE JoinSep(_)
JoinSep(comps) ==
  IF comps = << >> THEN << >>
  ELSE IF Len(comps) = 1 THEN comps[1]
  ELSE comps[1] \o << SEP >> \o JoinSep(Tail(comps))

\* str.rfind("/") + 1
RECURSIVE RFindSep(_, _)
RFindSep(s, i) == IF i = 0 THEN 0 ELSE IF s[i] = SEP THEN i ELSE RFindSep(s, i - 1)

\* str.rstrip("/")
RECURSIVE RStripSep(_)
RStripSep(s) ==
  IF s # << >> /\ s[Len(s)] = SEP THEN RStripSep(SubSeq(s, 1, Len(s) - 1)) ELSE s

(***************************************************************************)
(* posixpath                                                               *)
(***************************************************************************)
DOT == << "." >>
DOTDOT == << ".", "." >>

\* os.path.join(a, b)
PathJoin(a, b) ==
  IF StartsWith(b, << SEP >>) THEN b
  ELSE IF a = << >> \/ EndsWith(a, << SEP >>) THEN a \o b
  ELSE a \o << SEP >> \o b

\* the loop of os.path.normpath over the components
RECURSIVE NormComps(_, _, _)
NormComps(comps, new, initial_slashes) ==
  IF comps = << >> THEN new
  ELSE LET comp == Head(comps) IN
    IF comp = << >> \/ comp = DOT THEN NormComps(Tail(comps), new, initial_slashes)
    ELSE IF comp # DOTDOT
            \/ (initial_slashes = 0 /\ new = << >>)
            \/ (new # << >> /\ new[Len(new)] = DOTDOT)
      THEN NormComps(Tail(comps), Append(new, comp), initial_slashes)
    ELSE IF new # << >>
      THEN NormComps(Tail(comps), SubSeq(new, 1, Len(new) - 1), initial_slashes)
    ELSE NormComps(Tail(comps), new, initial_slashes)

\* os.path.normpath
NormPath(path) ==
  IF path = << >> THEN DOT
  ELSE LET initial_slashes ==
             IF ~StartsWith(path, << SEP >>) THEN 0
             ELSE IF StartsWith(path, << SEP, SEP >>) /\ ~StartsWith(path, << SEP, SEP, SEP >>)
               THEN 2 ELSE 1
           joined == JoinSep(NormComps(Split(path), << >>, initial_slashes))
           out == [i \in 1..initial_slashes |-> SEP] \o joined
       IN IF out = << >> THEN DOT ELSE out

\* the working directory of the process
Cwd == << "/", "s" >>

\* os.path.abspath
AbsPath(path) ==
  NormPath(IF StartsWith(path, << SEP >>) THEN path ELSE PathJoin(Cwd, path))

\* os.path.dirname
DirName(p) ==
  LET i == RFindSep(p, Len(p))
      head == SubSeq(p, 1, i)
  IN IF head # << >> /\ head # [k \in 1..Len(head) |-> SEP] THEN RStripSep(head) ELSE head

\* os.path.basename
BaseName(p) == SubSeq(p, RFindSep(p, Len(p)) + 1, Len(p))

(***************************************************************************)
(* The filesystem                                                          *)
(***************************************************************************)
\* Directory entry names.
n_s == << "s" >>
n_f == << "f" >>
n_fo == << "f", "o" >>
n_p == << "p" >>
n_q == << "q" >>
n_m == << "m" >>
n_a == << "a" >>
n_A == << "A" >>
n_b == << "b" >>
n_C == << "C" >>
n_c == << "c" >>
n_l == << "l" >>
n_d == << "d" >>
n_x == << "x" >>
n_bsl == << BSL >>
HiddenMarker == << ".", "h", "i", "d", "e" >>

Names == { n_s, n_f, n_fo, n_p, n_q, n_m, n_a, n_A, n_b, n_C, n_c, n_l, n_d, n_x,
           n_bsl, HiddenMarker }

Dir == [kind |-> "dir", target |-> << >>, access |-> TRUE]
File == [kind |-> "file", target |-> << >>, access |-> TRUE]
Link(t) == [kind |-> "link", target |-> t, access |-> TRUE]
NoAccess == [kind |-> "dir", target |-> << >>, access |-> FALSE]

\* The part of the tree that every filesystem of the model has: the served
\* directory /s/f, its sibling /s/fo, and the program's own directory /p/q.
FixedTree ==
  << >> :> Dir
  @@ << n_s >> :> Dir
  @@ << n_s, n_f >> :> Dir
  @@ << n_s, n_fo >> :> Dir
  @@ << n_s, n_fo, n_x >> :> File
  @@ << n_p >> :> Dir
  @@ << n_p, n_q >> :> Dir
  @@ << n_p, n_q, n_m >> :> File
  @@ << n_s, n_f, n_A >> :> Dir
  @@ << n_s, n_f, n_b >> :> File
  @@ << n_s, n_f, n_C >> :> File
  @@ << n_s, n_f, n_A, n_bsl >> :> Dir
  @@ << n_s, n_f, n_A, n_bsl, n_c >> :> Dir

MarkerChoices == { "none", "a", "c", "cdir" }
DenyChoices == { "none", "a", "c" }
LinkChoices == { "none", "loop", "dangling" }

\* A filesystem: where the marker is, which directory denies access, which link exists.
MakeFs(mk, deny, ln) ==
  (<< n_s, n_f, n_a >> :> (IF deny = "a" THEN NoAccess ELSE Dir))
  @@ (<< n_s, n_f, n_a, n_c >> :> (IF deny = "c" THEN NoAccess ELSE Dir))
  @@ (IF mk = "a" THEN << n_s, n_f, n_a, HiddenMarker >> :> File
      ELSE IF mk = "c" THEN << n_s, n_f, n_a, n_c, HiddenMarker >> :> File
      ELSE IF mk = "cdir" THEN << n_s, n_f, n_a, n_c, HiddenMarker >> :> Dir
      ELSE << >> :> Dir)
  @@ (IF ln = "loop" THEN << n_s, n_f, n_a, n_c, n_l >> :> Link(<< "/", "s", "/", "f", "/", "a" >>)
      ELSE IF ln = "dangling" THEN << n_s, n_f, n_a, n_c, n_d >> :> Link(<< "/", "s", "/", "f", "/", "x" >>)
      ELSE << >> :> Dir)
  @@ FixedTree

\* How many symbolic links one path resolution follows before it fails with ELOOP.
MaxFollow == 2

\* The components of a path the kernel walks: empty ones and "." are skipped.
Comps(path) == SelectSeq(Split(path), LAMBDA c : c # << >> /\ c # DOT)

Found(node) == [err |-> "", node |-> node]
Failed(e) == [err |-> e, node |-> << >>]

\* Path resolution from the canonical directory at, following a final symbolic
\* link only when follow is set.
RECURSIVE Resolve(_, _, _, _)
Resolve(at, comps, hops, follow) ==
  IF comps = << >> THEN Found(at)
  ELSE IF fs[at].kind # "dir" THEN Failed("ENOTDIR")
  ELSE IF ~fs[at].access THEN Failed("EACCES")
  ELSE LET c == Head(comps)
           rest == Tail(comps)
           nxt == Append(at, c)
       IN IF c = DOTDOT
            THEN Resolve(IF at = << >> THEN at ELSE SubSeq(at, 1, Len(at) - 1), rest, hops, follow)
          ELSE IF nxt \notin DOMAIN fs THEN Failed("ENOENT")
          ELSE IF fs[nxt].kind = "link" /\ (rest # << >> \/ follow)
            THEN IF hops >= MaxFollow THEN Failed("ELOOP")
                 ELSE Resolve(<< >>, Comps(fs[nxt].target) \o rest, hops + 1, follow)
          ELSE Resolve(nxt, rest, hops, follow)

\* stat(2) and lstat(2) of an absolute path
Stat(path) == Resolve(<< >>, Comps(path), 0, TRUE)
LStat(path) == Resolve(<< >>, Comps(path), 0, FALSE)

\* os.path.isfile, os.path.isdir, os.path.islink: an error is False
IsFile(path) == LET r == Stat(path) IN r.err = "" /\ fs[r.node].kind = "file"
IsDir(path) == LET r == Stat(path) IN r.err = "" /\ fs[r.node].kind = "dir"
IsLink(path) == LET r == LStat(path) IN r.err = "" /\ fs[r.node].kind = "link"

\* os.scandir(path): the names of the entries, or the errno it fails with
ScanDir(path) ==
  LET r == Stat(path) IN
    IF r.err # "" THEN [err |-> r.err, names |-> {}]
    ELSE IF fs[r.node].kind # "dir" THEN [err |-> "ENOTDIR", names |-> {}]
    ELSE IF ~fs[r.node].access THEN [err |-> "EACCES", names |-> {}]
    ELSE [err |-> "", names |-> { n \in Names : Append(r.node, n) \in DOMAIN fs }]

\* The exception class Python raises for an errno.
ExcOf(errno) ==
  CASE errno = "ENOENT" -> "FileNotFoundError"
    [] errno = "EACCES" -> "PermissionError"
    [] errno = "ENOTDIR" -> "NotADirectoryError"
    [] OTHER -> "OSError"

(***************************************************************************)
(* The program                                                             *)
(***************************************************************************)
\* __file__ of main.py
ScriptFile == << "/", "p", "/", "q", "/", "m" >>

\* HERE = os.path.abspath(os.path.dirname(__file__))
HERE == AbsPath(DirName(ScriptFile))

\* DEFAULT_BASE = os.path.abspath(os.path.join(HERE, "..")), as the module is loaded
InitialDefaultBase == AbsPath(PathJoin(HERE, DOTDOT))

\* Python's truth value of an optional string
Truthy(v) == v # NoValue /\ v # << >>

\* os.environ.get("FILE_DIR") or DEFAULT_BASE
EnvOrDefault == IF Truthy(environ) THEN environ ELSE DEFAULT_BASE

\* The values FILE_DIR and --dir take in the model.
EnvChoices == { NoValue, << >>, << "/", "s", "/", "f" >> }
ArgChoices == { NoValue, << "f" >>, << "/", "p" >> }

\* The request paths of the model.
RequestPaths ==
  { << >>,
    << "a" >>,
    << "a", "/", "c" >>,
    << "a", "/", ".", "." >>,
    << "a", "/", "c", "/", "l" >>,
    << "A" >>,
    << "A", "/", BSL, "/", "c" >>,
    << "b" >>,
    << "b", "/", "x" >>,
    << "x" >>,
    << "q" >>,
    << ".", "." >>,
    << ".", ".", "/", "f", "o" >>,
    << ".", ".", "/", "f", "o", "/", "x" >>,
    << "/", "s", "/", "f", "/", "a" >>,
    << "/", "p" >>,
    << "/", "p", "/", "q", "/", "m" >> }

NoEntry == [name |-> << >>, is_dir |-> FALSE]

NoResponse ==
  [kind |-> "none", code |-> 0, exc |-> "", directory |-> << >>, file |-> << >>,
   entries |-> << >>, parent |-> NoValue, current_path |-> << >>]

\* abort(code)
Abort(c) == [NoResponse EXCEPT !.kind = "abort", !.code = c]

\* an exception no handler of browse catches
Raise(e) == [NoResponse EXCEPT !.kind = "raise", !.exc = e]

\* send_from_directory(directory, file, as_attachment=True)
SendFromDirectory(d, f) ==
  [NoResponse EXCEPT !.kind = "send_from_directory", !.directory = d, !.file = f]

\* render_template("files.html", entries=..., parent=..., current_path=...)
RenderTemplate(es, par, cp) ==
  [NoResponse EXCEPT !.kind = "render", !.entries = es, !.parent = par, !.current_path = cp]

\* browse without the prefix test
ContainmentCheckSkipped(t, b) == TRUE

\* target_path.startswith(base)
ContainmentCheck(t, b) == StartsWith(t, b)

\* A sort key that compares names case-sensitively
SortKeyNameCaseSensitive(e) == e.name

\* The name part of the sort key: x["name"].lower()
SortKeyName(e) == Lower(e.name)

\* key(e1) < key(e2) for key = (not is_dir, name.lower())
KeyLess(e1, e2) ==
  IF e1.is_dir # e2.is_dir THEN e1.is_dir
  ELSE StrLess(SortKeyName(e1), SortKeyName(e2))

\* The position list.sort gives e among the already sorted s: after every
\* element whose key is not greater (the sort is stable).
RECURSIVE InsertSorted(_, _)
InsertSorted(s, e) ==
  IF s = << >> THEN << e >>
  ELSE IF KeyLess(e, Head(s)) THEN << e >> \o s
  ELSE << Head(s) >> \o InsertSorted(Tail(s), e)

\* entries.sort(key=...)
RECURSIVE SortEntries(_)
SortEntries(s) ==
  IF s = << >> THEN << >>
  ELSE InsertSorted(SortEntries(SubSeq(s, 1, Len(s) - 1)), s[Len(s)])

\* os.path.normpath(os.path.join(req_path, name)).replace('\\', '/')
RelPath(rp, name) == Replace(NormPath(PathJoin(rp, name)), BSL, SEP)

\* The parent link of a listing.
ParentOf(t, b, rp) ==
  IF AbsPath(t) # b
    THEN LET par == Replace(NormPath(PathJoin(rp, DOTDOT)), BSL, SEP)
         IN IF par = DOT THEN << >> ELSE par
  ELSE NoValue

\* os.walk with followlinks=True
WalkIntoFollowingLinks(path) == TRUE

\* os.walk with followlinks=False walks into a subdirectory that is no symbolic link
WalkInto(path) == ~IsLink(path)

Init ==
  /\ \E mk \in MarkerChoices, deny \in DenyChoices, ln \in LinkChoices :
       fs = MakeFs(mk, deny, ln)
  /\ environ \in EnvChoices
  /\ argDir \in ArgChoices
  /\ DEFAULT_BASE = InitialDefaultBase
  /\ pc = "startup"
  /\ req_path = << >>
  /\ base = << >>
  /\ target_path = << >>
  /\ pending = {}
  /\ enumerated = << >>
  /\ cur = NoEntry
  /\ walkTodo = {}
  /\ walked = {}
  /\ entries = << >>
  /\ touched = {}
  /\ response = NoResponse

\* The __main__ block up to app.run: --dir defaults to FILE_DIR or DEFAULT_BASE,
\* and DEFAULT_BASE becomes its absolute path.
Main ==
  /\ pc = "startup"
  /\ LET args_dir == IF argDir # NoValue THEN argDir ELSE EnvOrDefault
     IN DEFAULT_BASE' = AbsPath(args_dir)
  /\ pc' = "idle"
  /\ UNCHANGED << fs, environ, argDir, req_path, base, target_path, pending, enumerated,
                  cur, walkTodo, walked, entries, touched, response >>

\* A request arrives and browse is called.
Request ==
  /\ pc = "idle"
  /\ \E p \in RequestPaths : req_path' = p
  /\ pc' = "resolve"
  /\ base' = << >>
  /\ target_path' = << >>
  /\ pending' = {}
  /\ enumerated' = << >>
  /\ cur' = NoEntry
  /\ walkTodo' = {}
  /\ walked' = {}
  /\ entries' = << >>
  /\ touched' = {}
  /\ response' = NoResponse
  /\ UNCHANGED << fs, environ, argDir, DEFAULT_BASE >>

\* base, target_path and the prefix test
ResolveStep ==
  /\ pc = "resolve"
  /\ \E b \in { AbsPath(EnvOrDefault) } :
       \E t \in { AbsPath(PathJoin(b, req_path)) } :
         /\ base' = b
         /\ target_path' = t
         /\ IF ~ContainmentCheck(t, b)
              THEN response' = Abort(403) /\ pc' = "idle"
              ELSE response' = response /\ pc' = "isfile"
  /\ UNCHANGED << fs, environ, argDir, DEFAULT_BASE, req_path, pending, enumerated, cur,
                  walkTodo, walked, entries, touched >>

\* os.path.isfile(target_path) and the file branch
IsFileStep ==
  /\ pc = "isfile"
  /\ IF IsFile(target_path)
       THEN /\ response' = SendFromDirectory(DirName(target_path), BaseName(target_path))
            /\ touched' = touched \cup { "isfile", "send_from_directory" }
            /\ pc' = "idle"
       ELSE /\ response' = response
            /\ touched' = touched \cup { "isfile" }
            /\ pc' = "scandir"
  /\ UNCHANGED << fs, environ, argDir, DEFAULT_BASE, req_path, base, target_path, pending,
                  enumerated, cur, walkTodo, walked, entries >>

\* What an OSError raised inside the try block becomes.
Except(errno) == IF ExcOf(errno) = "FileNotFoundError" THEN Abort(404) ELSE Raise(ExcOf(errno))

\* with os.scandir(target_path) as it
ScanDirStep ==
  /\ pc = "scandir"
  /\ LET sd == ScanDir(target_path)
     IN IF sd.err # ""
          THEN response' = Except(sd.err) /\ pc' = "idle" /\ pending' = pending
          ELSE response' = response /\ pc' = "entry" /\ pending' = sd.names
  /\ touched' = touched \cup { "scandir" }
  /\ UNCHANGED << fs, environ, argDir, DEFAULT_BASE, req_path, base, target_path,
                  enumerated, cur, walkTodo, walked, entries >>

\* for e in it: e.is_dir(), and the entry of dir_contains_hide
NextEntry ==
  /\ pc = "entry"
  /\ \E n \in pending :
       LET child_dir == PathJoin(target_path, n)
           is_dir == IsDir(child_dir)
       IN /\ pending' = pending \ { n }
          /\ enumerated' = Append(enumerated, n)
          /\ cur' = [name |-> n, is_dir |-> is_dir]
          /\ IF is_dir /\ IsDir(child_dir)
               THEN pc' = "walk" /\ walkTodo' = { child_dir }
               ELSE pc' = "stat" /\ walkTodo' = {}
          /\ walked' = {}
          /\ touched' = touched \cup { "is_dir" }
  /\ UNCHANGED << fs, environ, argDir, DEFAULT_BASE, req_path, base, target_path, entries,
                  response >>

\* A scan that takes a directory it cannot open for a marked one
WalkScanFailClosed(d) == IF ScanDir(d).err = "" THEN ScanDir(d).names ELSE { HiddenMarker }

\* os.walk's scandir of one directory: with onerror=None a failure is ignored
\* and the directory yields nothing.
WalkScan(d) == IF ScanDir(d).err = "" THEN ScanDir(d).names ELSE {}

\* A test for the marker among all the entries, directories included
ContainsHideAnyEntry(dirs, files) == HiddenMarker \in (files \cup dirs)

\* ".hide" in files
ContainsHide(dirs, files) == HiddenMarker \in files

\* One directory of os.walk(path): its scandir, the test for the marker among
\* its files, and the subdirectories to walk into.
WalkStep ==
  /\ pc = "walk"
  /\ \E d \in walkTodo :
       LET names == WalkScan(d)
           dirs == { n \in names : IsDir(PathJoin(d, n)) }
           files == names \ dirs
       IN /\ walked' = walked \cup { d }
          /\ IF ContainsHide(dirs, files)
               THEN /\ pc' = "entry"
                    /\ cur' = NoEntry
                    /\ walkTodo' = {}
               ELSE /\ pc' = pc
                    /\ cur' = cur
                    /\ walkTodo' = (walkTodo \ { d })
                         \cup { PathJoin(d, n) : n \in { m \in dirs : WalkInto(PathJoin(d, m)) } }
  /\ touched' = touched \cup { "walk" }
  /\ UNCHANGED << fs, environ, argDir, DEFAULT_BASE, req_path, base, target_path, pending,
                  enumerated, entries, response >>

\* os.walk is exhausted: dir_contains_hide returns False
WalkDone ==
  /\ pc = "walk"
  /\ walkTodo = {}
  /\ pc' = "stat"
  /\ UNCHANGED << fs, environ, argDir, DEFAULT_BASE, req_path, base, target_path, pending,
                  enumerated, cur, walkTodo, walked, entries, touched, response >>

\* e.stat() and entries.append(...)
StatEntry ==
  /\ pc = "stat"
  /\ LET st == Stat(PathJoin(target_path, cur.name))
     IN IF st.err # ""
          THEN response' = Except(st.err) /\ pc' = "idle" /\ entries' = entries
          ELSE /\ response' = response
               /\ pc' = "entry"
               /\ entries' = Append(entries, [name |-> cur.name, is_dir |-> cur.is_dir,
                                              rel_path |-> RelPath(req_path, cur.name)])
  /\ touched' = touched \cup { "stat" }
  /\ UNCHANGED << fs, environ, argDir, DEFAULT_BASE, req_path, base, target_path, pending,
                  enumerated, cur, walkTodo, walked >>

\* The loop is over: sort, parent, render.
Render ==
  /\ pc = "entry"
  /\ pending = {}
  /\ response' = RenderTemplate(SortEntries(entries),
                                ParentOf(target_path, base, req_path), req_path)
  /\ pc' = "idle"
  /\ UNCHANGED << fs, environ, argDir, DEFAULT_BASE, req_path, base, target_path, pending,
                  enumerated, cur, walkTodo, walked, entries, touched >>

\* The steps of one call of browse.
Handler ==
  \/ ResolveStep
  \/ IsFileStep
  \/ ScanDirStep
  \/ NextEntry
  \/ WalkStep
  \/ WalkDone
  \/ StatEntry
  \/ Render

Next == Main \/ Request \/ Handler

Spec == Init /\ [][Next]_vars

\* A call of browse is running.
Busy == pc \notin { "startup", "idle" }

\* Every step of the handler changes pc, pending or walked, so the handler can
\* take a step exactly when a call is running.
HandlerEnabledIsBusy == Busy <=> ENABLED << Handler >>_vars

\* The startup block and a started call of browse keep running: they are
\* sequential code.  The second conjunct is WF_vars(Handler) with
\* ENABLED << Handler >>_vars written as Busy (see HandlerEnabledIsBusy).
FairSpec ==
  /\ Spec
  /\ WF_vars(Main)
  /\ ([]<>(~Busy) \/ []<><< Handler >>_vars)

(***************************************************************************)
(* Vocabulary of the properties                                            *)
(***************************************************************************)
\* The last request has been answered.
Answered == pc = "idle" /\ response.kind # "none"

\* browse has computed base and target_path for the request in hand.
Decided == pc \notin { "startup", "resolve" } /\ base # << >>

\* The canonicalized join of root and the request path.
Canonical == AbsPath(PathJoin(base, req_path))

\* t is root itself, or root followed immediately by a separator and more.
WithinRoot(t, root) ==
  \/ t = root
  \/ StartsWith(t, IF root = << SEP >> THEN root ELSE root \o << SEP >>)

\* The names of a sequence of entries.
NamesOf(es) == { es[i].name : i \in 1..Len(es) }

\* The absolute path of a node of the filesystem.
PathOf(node) == << SEP >> \o JoinSep(node)

\* The directory a path names, symbolic links followed.
NodeOf(path) == Stat(path).node

\* The children of the listed directory that are directories.
DirChildren ==
  { n \in ScanDir(target_path).names : IsDir(PathJoin(target_path, n)) }

\* The directories of the subtree of top that can be reached from top through
\* directories that are no symbolic links and can be opened.
Reach(top) ==
  { n \in DOMAIN fs :
      /\ Len(n) >= Len(top)
      /\ SubSeq(n, 1, Len(top)) = top
      /\ \A k \in Len(top)..Len(n) :
           /\ fs[SubSeq(n, 1, k)].kind = "dir"
           /\ (k < Len(n) => fs[SubSeq(n, 1, k)].access) }

\* A node that is not a directory, symbolic links followed.
NonDirectory(node) ==
  \/ fs[node].kind = "file"
  \/ (fs[node].kind = "link" /\ ~IsDir(PathOf(node)))

\* A file named .hide lies in a part of the subtree of top that can be read.
MarkerVisible(top) ==
  \E n \in Reach(top) :
    /\ fs[n].access
    /\ Append(n, HiddenMarker) \in DOMAIN fs
    /\ NonDirectory(Append(n, HiddenMarker))

\* A file named .hide lies somewhere in the subtree of top.
MarkerExists(top) ==
  \E m \in DOMAIN fs :
    /\ Len(m) > Len(top)
    /\ SubSeq(m, 1, Len(top)) = top
    /\ m[Len(m)] = HiddenMarker
    /\ fs[m].kind = "file"

\* Some directory of the subtree of top cannot be opened.
ScanFails(top) == \E n \in Reach(top) : ~fs[n].access

\* The position of a name in the order the directory was enumerated in.
EnumPos(n) == CHOOSE i \in 1..Len(enumerated) : enumerated[i] = n

\* The listed directory can be enumerated and every child that the marker
\* does not hide can be stat'ed.
CanBeListed ==
  /\ ScanDir(target_path).err = ""
  /\ \A n \in ScanDir(target_path).names :
       \/ (n \in DirChildren /\ MarkerVisible(NodeOf(PathJoin(target_path, n))))
       \/ Stat(PathJoin(target_path, n)).err = ""

(***************************************************************************)
(* C1                                                                      *)
(***************************************************************************)
\* C1: when the canonicalized join of root and the request path is neither root
\* nor root followed immediately by a separator, the request is answered 403 and
\* never with a listing or a file.
C1_EscapeIsForbidden ==
  (Answered /\ Decided /\ ~WithinRoot(Canonical, base)) => response = Abort(403)

(***************************************************************************)
(* C2                                                                      *)
(***************************************************************************)
\* C2 as stated: a child directory is omitted from the listing exactly when a file
\* named .hide exists anywhere in its subtree; and a directory with such a file
\* that is requested by its own path is not answered 403, and is answered with a
\* listing (here: whenever it can be enumerated and its entries stat'ed).
C2_OmittedIffMarkerExists ==
  /\ (Answered /\ response.kind = "render") =>
       \A n \in DirChildren :
         (n \notin NamesOf(response.entries))
           <=> MarkerExists(NodeOf(PathJoin(target_path, n)))
  /\ (Answered /\ Decided /\ StartsWith(target_path, base) /\ target_path # base
        /\ IsDir(target_path) /\ MarkerExists(NodeOf(target_path)))
       => /\ response # Abort(403)
          /\ CanBeListed => response.kind = "render"

\* C2 (amended): a child directory is omitted from the listing exactly when a file
\* named .hide lies in a part of its subtree that the scan can read; a directory
\* with such a marker that is requested by its own path is not answered 403, and
\* is answered with the listing of its own contents (less its own hidden children)
\* whenever it can be enumerated and its entries stat'ed.
C2_OmittedIffMarkerVisible ==
  /\ (Answered /\ response.kind = "render") =>
       \A n \in DirChildren :
         (n \notin NamesOf(response.entries))
           <=> MarkerVisible(NodeOf(PathJoin(target_path, n)))
  /\ (Answered /\ Decided /\ StartsWith(target_path, base) /\ target_path # base
        /\ IsDir(target_path) /\ MarkerVisible(NodeOf(target_path)))
       => /\ response # Abort(403)
          /\ CanBeListed =>
               /\ response.kind = "render"
               /\ NamesOf(response.entries) =
                    { n \in ScanDir(target_path).names :
                        ~(n \in DirChildren
                            /\ MarkerVisible(NodeOf(PathJoin(target_path, n)))) }

\* A listing of the root that omits a, whose subtree holds a marker two levels down.
C2_Witness ==
  /\ Answered
  /\ response.kind = "render"
  /\ target_path = base
  /\ n_a \in DirChildren
  /\ n_a \notin NamesOf(response.entries)
  /\ n_A \in NamesOf(response.entries)
  /\ << n_s, n_f, n_a, n_c, HiddenMarker >> \in DOMAIN fs

(***************************************************************************)
(* C3                                                                      *)
(***************************************************************************)
\* C3: for a request path that escapes root no is-file test, enumeration, marker
\* scan or file serve is made, and the request is answered 403.
C3_DecisionBeforeAccess ==
  (Decided /\ ~WithinRoot(Canonical, base)) =>
     /\ touched = {}
     /\ (Answered => response = Abort(403))

(***************************************************************************)
(* C4                                                                      *)
(***************************************************************************)
\* C4: a request inside root whose target is no regular file and cannot be
\* enumerated is answered 404, and 403 and 404 are the only error outcomes.
C4_EnumerationFailureIsNotFound ==
  Answered =>
    /\ response.kind \in { "render", "send_from_directory", "abort" }
    /\ (response.kind = "abort" => response.code \in { 403, 404 })
    /\ (WithinRoot(Canonical, base) /\ ~IsFile(Canonical) /\ ScanDir(Canonical).err # "")
         => response = Abort(404)

(***************************************************************************)
(* C5                                                                      *)
(***************************************************************************)
\* C5: in a listing every directory precedes every file, within each group the
\* names are non-decreasing compared case-insensitively, and names equal ignoring
\* case keep the order they were enumerated in; the listing holds exactly the
\* retained entries.
C5_ListingSorted ==
  (Answered /\ response.kind = "render") =>
    LET es == response.entries IN
      /\ Len(es) = Len(entries)
      /\ { es[i] : i \in 1..Len(es) } = { entries[i] : i \in 1..Len(entries) }
      /\ \A i, j \in 1..Len(es) : i < j =>
           /\ es[j].is_dir => es[i].is_dir
           /\ (es[i].is_dir = es[j].is_dir)
                => ~StrLess(Lower(es[j].name), Lower(es[i].name))
           /\ (es[i].is_dir = es[j].is_dir /\ Lower(es[i].name) = Lower(es[j].name))
                => EnumPos(es[i].name) < EnumPos(es[j].name)

\* A listing with two directories whose names are equal ignoring case, enumerated
\* upper case first, and two files whose order differs with and without case.
C5_Witness ==
  /\ Answered
  /\ response.kind = "render"
  /\ Len(response.entries) = 4
  /\ response.entries[1].name = n_A
  /\ response.entries[2].name = n_a
  /\ response.entries[3].name = n_b
  /\ response.entries[4].name = n_C

(***************************************************************************)
(* C6                                                                      *)
(***************************************************************************)
\* C6: a listing of root has no parent; a listing of any other directory has the
\* normalized form of the request path joined with "..", or the empty string when
\* that form is ".".
C6_ParentPath ==
  (Answered /\ response.kind = "render") =>
    IF target_path = base
      THEN response.parent = NoValue
      ELSE LET up == NormPath(PathJoin(req_path, DOTDOT))
           IN response.parent = (IF up = DOT THEN << >> ELSE up)

ScanNeverAnswers ==
  pc = "walk" => (pc' \in { "walk", "entry", "stat" } /\ response' = response)

\* A child directory whose subtree has a part that cannot be opened is listed
\* exactly when no marker lies in the part that can.
UnreadablePartIsNoMarker ==
  (Answered /\ response.kind = "render") =>
    \A n \in DirChildren :
      ScanFails(NodeOf(PathJoin(target_path, n))) =>
        ((n \in NamesOf(response.entries))
           <=> ~MarkerVisible(NodeOf(PathJoin(target_path, n))))

\* C8: an I/O error while scanning a child's subtree counts as no marker: the scan
\* does not end the request, and the child stays listed unless a marker lies in a
\* part of its subtree that can be read.
C8_ScanFailsOpen == [][ScanNeverAnswers]_vars /\ []UnreadablePartIsNoMarker

\* A listing of the root that shows a, whose subdirectory c cannot be opened and
\* holds a marker.
C8_Witness ==
  /\ Answered
  /\ response.kind = "render"
  /\ target_path = base
  /\ n_a \in NamesOf(response.entries)
  /\ ~fs[<< n_s, n_f, n_a, n_c >>].access
  /\ << n_s, n_f, n_a, n_c, HiddenMarker >> \in DOMAIN fs
  /\ "walk" \in touched

(***************************************************************************)
(* C9                                                                      *)
(***************************************************************************)
\* The absolute path of --dir, which defaults to FILE_DIR, else to the default base.
StartupDir ==
  AbsPath(IF argDir # NoValue THEN argDir
          ELSE IF Truthy(environ) THEN environ ELSE InitialDefaultBase)

\* C9: the root every request is resolved against is the absolute path of the
\* --dir startup argument.
C9_RootIsStartupDir == Decided => base = StartupDir

(***************************************************************************)
(* C10                                                                     *)
(***************************************************************************)
\* os.walk visits no symbolic link below the directory it was started on.
WalkStaysOffLinks ==
  pc = "walk" =>
    \A d \in (walkTodo \cup walked) :
      d # PathJoin(target_path, cur.name) => ~IsLink(d)

\* C10: the marker scan does not descend through symbolic links below the scanned
\* child, every scan ends, and every request is answered.
C10_ScanTerminates ==
  /\ []WalkStaysOffLinks
  /\ ((pc = "walk") ~> (pc # "walk"))
  /\ ((pc = "resolve") ~> Answered)

\* A scan started on the symbolic link l, which points back at an ancestor, has
\* gone through the directory that holds l.
C10_Witness ==
  /\ pc = "walk"
  /\ << n_s, n_f, n_a, n_c, n_l >> \in DOMAIN fs
  /\ IsLink(PathJoin(target_path, cur.name))
  /\ Cardinality(walked) >= 2

====
